---- MODULE Spec2Model ----
(***************************************************************************)
(* A model of the pattern-matching engine of oxide.ts (src/src/match.ts):  *)
(* the condition evaluator `matches`, the ordered dispatcher               *)
(* `matchChained`, the keyed dispatcher `matchMapped`, the router          *)
(* `matchDispatch` and the public `match`.                                 *)
(*                                                                         *)
(* JavaScript values are records tagged by the field k.  Objects carry a   *)
(* heap address `ref`, so that record equality is JavaScript's `===`:      *)
(* primitives compare by value, objects and functions by identity.         *)
(* Every operator that can run user code returns the value it produces     *)
(* together with `log`, the sequence of function invocations it made.      *)
(***************************************************************************)
EXTENDS Integers, Sequences, FiniteSets, TLC

VARIABLES
    candidate,   \* the value handed to match / matches
    patt,        \* the pattern handed to match
    condition,   \* the condition handed to matches
    evalFlag,    \* the evaluate flag handed to matches
    outcome,     \* what the last operation returned or threw
    calls,       \* the function invocations the last operation made
    pc,          \* which operation has run
    matcher,     \* the function match.compile returned, once it has
    uses,        \* how often that function has been called
    frozen,      \* the objects Object.freeze has been applied to
    tampered,    \* the objects that have taken a write from a client
    depth        \* how deep the calls of matches nested in the last test

vars == <<candidate, patt, condition, evalFlag, outcome, calls, pc, matcher, uses,
          frozen, tampered, depth>>

(***************************************************************************)
(* Bounds of the explored inputs.                                          *)
(***************************************************************************)
MaxNum == 1
MaxBranches == 2
MaxLevels == 3
MaxUses == 2

(***************************************************************************)
(* JavaScript values.                                                      *)
(***************************************************************************)
Undef == [k |-> "undefined"]
Null == [k |-> "null"]
Num(n) == [k |-> "number", v |-> n]
Str(s) == [k |-> "string", s |-> s]
Bool(b) == [k |-> "boolean", b |-> b]

\* A plain function value: `id` is its identity, `beh` what its body does.
Func(id, beh) == [k |-> "function", id |-> id, beh |-> beh]

\* new OptionType(val, some) / new ResultType(val, ok), allocated at ref.
OptionType(ref, v, some) == [k |-> "Option", T |-> some, Val |-> v, ref |-> ref]
ResultType(ref, v, ok) == [k |-> "Result", T |-> ok, Val |-> v, ref |-> ref]

SomeAt(ref, v) == OptionType(ref, v, TRUE)
None == OptionType(0, Undef, FALSE)
OkAt(ref, v) == ResultType(ref, v, TRUE)
ErrAt(ref, v) == ResultType(ref, v, FALSE)

\* An object literal {key: val, ...} (own keys in insertion order) and an
\* array literal [item, ...].
Obj(ref, props) == [k |-> "object", props |-> props, ref |-> ref]
Arr(ref, items) == [k |-> "array", items |-> items, ref |-> ref]
Prop(key, v) == [key |-> key, val |-> v]

\* A thrown Error, as the outcome of an operation.
Throw(msg) == [k |-> "throw", msg |-> msg]

Exhausted == Throw("Match failed (exhausted)")
InvalidPattern == Throw("Match failed (invalid pattern)")
WrappedFunctionCalled == Throw("Match error (wrapped function called)")
TypeError == Throw("TypeError")

throwInvalidPattern == InvalidPattern
throwFnCalled == WrappedFunctionCalled

\* A sentinel whose body returns undefined instead of throwing.
DefaultSilent == Func(0, "arg")

\* The Default sentinel is a function whose body throws the exhausted error.
Default == Func(0, "exhausted")

\* export const _ = Default
Underscore == Default

\* A wrapper whose body hands the call on to the function it wraps.
FnForwards(id, fn) == [k |-> "function", id |-> id, beh |-> fn.beh, mark |-> fn]

\* Fn(fn): a fresh function (identity id) whose body is throwFnCalled() and
\* that carries fn under the MarkFn symbol.
Fn(id, fn) == [k |-> "function", id |-> id, beh |-> "fnCalled", mark |-> fn]

\* x[MarkFn]
MarkFn(x) == IF x.k = "function" /\ "mark" \in DOMAIN x THEN x.mark ELSE Undef

\* typeof x === "function"
IsFunction(x) == x.k = "function"

\* Array.isArray(x)
IsArray(x) == x.k = "array"

\* JavaScript truthiness.
Truthy(x) ==
    CASE x.k = "undefined" -> FALSE
      [] x.k = "null" -> FALSE
      [] x.k = "boolean" -> x.b
      [] x.k = "number" -> x.v # 0
      [] x.k = "string" -> x.s # ""
      [] OTHER -> TRUE

isObjectLike(value) == value.k \in {"object", "array", "Option", "Result"}

\* Option.is(val) / Result.is(val): val instanceof OptionType / ResultType.
OptionIs(x) == x.k = "Option"
ResultIs(x) == x.k = "Result"

\* T in cond: the receiver carries the container marker.
HasT(x) == x.k \in {"Option", "Result"}

\* isLike comparing the variant flag alone, whatever the kind of container.
isLikeAnyKind(this, cmp) == HasT(cmp) /\ this.T = cmp.T

\* this.isLike(cmp) of OptionType and ResultType.
isLike(this, cmp) ==
    IF this.k = "Option"
    THEN cmp.k = "Option" /\ this.T = cmp.T
    ELSE cmp.k = "Result" /\ this.T = cmp.T

\* An invocation f(args), as recorded in a log.
Event(f, args) == [fn |-> f, args |-> args]

\* The promise an async function returns: not settled when the call returns.
PendingPromise(id) == [k |-> "promise", id |-> id, state |-> "pending"]

\* The value (or thrown error) of the call f(args), by the body of f.
CallFn(f, args) ==
    CASE f.beh = "exhausted" -> Exhausted
      [] f.beh = "async" -> PendingPromise(f.id)
      [] f.beh = "fnCalled" -> throwFnCalled
      [] f.beh = "true" -> Bool(TRUE)
      [] f.beh = "false" -> Bool(FALSE)
      [] f.beh = "arg" -> IF Len(args) > 0 THEN args[1] ELSE Undef
      [] f.beh = "tag" -> Num(100 + f.id)
      [] OTHER -> Undef

\* The property name of array index i - 1.
IndexKey == <<"0", "1", "2", "3">>

\* Own enumerable keys of an object or array, in Object.keys order.
Keys(x) ==
    CASE x.k = "object" -> [i \in 1..Len(x.props) |-> x.props[i].key]
      [] x.k = "array" -> [i \in 1..Len(x.items) |-> IndexKey[i]]
      [] OTHER -> <<>>

\* Object.prototype.toString and Array.prototype.toString: every object,
\* array and container inherits a property "toString" it does not own.
objectToString == Func(90, "tag")
arrayToString == Func(91, "tag")

Inherits(x, key) == isObjectLike(x) /\ key = "toString"

\* x owns the property key.
HasOwn(x, key) ==
    CASE x.k = "object" -> \E i \in 1..Len(x.props) : x.props[i].key = key
      [] x.k = "array" -> \E i \in 1..Len(x.items) : IndexKey[i] = key
      [] OTHER -> FALSE

\* key in x: own or inherited.
HasKey(x, key) == HasOwn(x, key) \/ Inherits(x, key)

\* x[key]
Get(x, key) ==
    CASE x.k = "object" /\ HasOwn(x, key) ->
           x.props[CHOOSE i \in 1..Len(x.props) : x.props[i].key = key].val
      [] x.k = "array" /\ HasOwn(x, key) ->
           x.items[CHOOSE i \in 1..Len(x.items) : IndexKey[i] = key]
      [] Inherits(x, key) -> IF IsArray(x) THEN arrayToString ELSE objectToString
      [] OTHER -> Undef

(***************************************************************************)
(* The condition evaluator.  The result is [b, log, depth, err]: whether   *)
(* the condition matched, the predicate invocations made on the way, how   *)
(* deep the calls of matches nested, and whether a TypeError was raised.   *)
(***************************************************************************)
NoMatch == [b |-> FALSE, log |-> <<>>, depth |-> 1, err |-> FALSE]
IsMatch == [b |-> TRUE, log |-> <<>>, depth |-> 1, err |-> FALSE]

\* The key loop left without a call of matches: all keys done, or a key the
\* candidate lacks.
KeysDone == [b |-> TRUE, log |-> <<>>, depth |-> 0, err |-> FALSE]
KeyAbsent == [b |-> FALSE, log |-> <<>>, depth |-> 0, err |-> FALSE]

Max(a, b) == IF a >= b THEN a ELSE b

\* `key in val` raises a TypeError when val is no object, and val[key] does
\* when val is null or undefined.
InRaises(val) == ~(isObjectLike(val) \/ IsFunction(val))
ReadRaises(val) == val.k \in {"undefined", "null"}

\* The activation left by a TypeError.
Raised == [b |-> FALSE, log |-> <<>>, depth |-> 0, err |-> TRUE]

\* The result m of an inner call, seen from the activation that made it.
Deeper(m) == [b |-> m.b, log |-> m.log, depth |-> m.depth + 1, err |-> m.err]

RECURSIVE matches(_, _, _)
RECURSIVE matchesKeys(_, _, _, _)

\* The loop of matches reading val[key] without asking whether key is in val.
matchesKeysSkipsPresence(cond, val, evaluate, i) ==
    IF i > Len(Keys(cond))
    THEN KeysDone
    ELSE LET key == Keys(cond)[i]
             m == matches(Get(cond, key), Get(val, key), evaluate) IN
         IF ReadRaises(val)
         THEN Raised
         ELSE IF ~m.b
         THEN [b |-> FALSE, log |-> m.log, depth |-> m.depth, err |-> m.err]
         ELSE LET rest == matchesKeys(cond, val, evaluate, i + 1) IN
              [b |-> rest.b, log |-> m.log \o rest.log,
                    depth |-> Max(m.depth, rest.depth), err |-> rest.err]

\* The loop of matches switching predicate evaluation off for the entries.
matchesKeysSuppresses(cond, val, evaluate, i) ==
    IF i > Len(Keys(cond))
    THEN KeysDone
    ELSE LET key == Keys(cond)[i] IN
         IF InRaises(val)
         THEN Raised
         ELSE IF ~HasKey(val, key)
         THEN KeyAbsent
         ELSE LET m == matches(Get(cond, key), Get(val, key), FALSE) IN
              IF ~m.b
              THEN [b |-> FALSE, log |-> m.log, depth |-> m.depth, err |-> m.err]
              ELSE LET rest == matchesKeys(cond, val, evaluate, i + 1) IN
                   [b |-> rest.b, log |-> m.log \o rest.log,
                    depth |-> Max(m.depth, rest.depth), err |-> rest.err]

\* The loop of matches over Object.keys(cond), from the i-th key on.
matchesKeys(cond, val, evaluate, i) ==
    IF i > Len(Keys(cond))
    THEN KeysDone
    ELSE LET key == Keys(cond)[i] IN
         IF InRaises(val)
         THEN Raised
         ELSE IF ~HasKey(val, key)
         THEN KeyAbsent
         ELSE LET m == matches(Get(cond, key), Get(val, key), evaluate) IN
              IF ~m.b
              THEN [b |-> FALSE, log |-> m.log, depth |-> m.depth, err |-> m.err]
              ELSE LET rest == matchesKeys(cond, val, evaluate, i + 1) IN
                   [b |-> rest.b, log |-> m.log \o rest.log,
                    depth |-> Max(m.depth, rest.depth), err |-> rest.err]

\* matches handing its own evaluate flag down into a container condition.
matchesEvaluatesInside(cond, val, evaluate) ==
    IF cond = Default \/ cond = val
    THEN IsMatch
    ELSE IF IsFunction(cond)
    THEN IF Truthy(MarkFn(cond))
         THEN [b |-> MarkFn(cond) = val, log |-> <<>>, depth |-> 1, err |-> FALSE]
         ELSE IF evaluate
              THEN [b |-> Truthy(CallFn(cond, <<val>>)),
                    log |-> <<Event(cond, <<val>>)>>, depth |-> 1, err |-> FALSE]
              ELSE NoMatch
    ELSE IF isObjectLike(cond)
    THEN IF HasT(cond)
         THEN IF isLike(cond, val)
              THEN IF ReadRaises(val)
                   THEN Deeper(Raised)
                   ELSE Deeper(matches(cond.Val, val.Val, evaluate))
              ELSE NoMatch
         ELSE IF isObjectLike(val) /\ IsArray(cond) = IsArray(val)
              THEN Deeper(matchesKeys(cond, val, evaluate, 1))
              ELSE NoMatch
    ELSE NoMatch

\* matches comparing an Fn-wrapped condition only where predicates are
\* evaluated.
matchesFnOnlyAtTop(cond, val, evaluate) ==
    IF cond = Default \/ cond = val
    THEN IsMatch
    ELSE IF IsFunction(cond)
    THEN IF Truthy(MarkFn(cond))
         THEN [b |-> evaluate /\ MarkFn(cond) = val, log |-> <<>>, depth |-> 1, err |-> FALSE]
         ELSE IF evaluate
              THEN [b |-> Truthy(CallFn(cond, <<val>>)),
                    log |-> <<Event(cond, <<val>>)>>, depth |-> 1, err |-> FALSE]
              ELSE NoMatch
    ELSE IF isObjectLike(cond)
    THEN IF HasT(cond)
         THEN IF isLike(cond, val)
              THEN IF ReadRaises(val)
                   THEN Deeper(Raised)
                   ELSE Deeper(matches(cond.Val, val.Val, FALSE))
              ELSE NoMatch
         ELSE IF isObjectLike(val) /\ IsArray(cond) = IsArray(val)
              THEN Deeper(matchesKeys(cond, val, evaluate, 1))
              ELSE NoMatch
    ELSE NoMatch

\* matches comparing keys without asking whether both sides are arrays.
matchesIgnoresShape(cond, val, evaluate) ==
    IF cond = Default \/ cond = val
    THEN IsMatch
    ELSE IF IsFunction(cond)
    THEN IF Truthy(MarkFn(cond))
         THEN [b |-> MarkFn(cond) = val, log |-> <<>>, depth |-> 1, err |-> FALSE]
         ELSE IF evaluate
              THEN [b |-> Truthy(CallFn(cond, <<val>>)),
                    log |-> <<Event(cond, <<val>>)>>, depth |-> 1, err |-> FALSE]
              ELSE NoMatch
    ELSE IF isObjectLike(cond)
    THEN IF HasT(cond)
         THEN IF isLike(cond, val)
              THEN IF ReadRaises(val)
                   THEN Deeper(Raised)
                   ELSE Deeper(matches(cond.Val, val.Val, FALSE))
              ELSE NoMatch
         ELSE IF isObjectLike(val)
              THEN Deeper(matchesKeys(cond, val, evaluate, 1))
              ELSE NoMatch
    ELSE NoMatch

\* matches recognising the wildcard only where predicates are evaluated.
matchesWildcardOnlyAtTop(cond, val, evaluate) ==
    IF (evaluate /\ cond = Default) \/ cond = val
    THEN IsMatch
    ELSE IF IsFunction(cond)
    THEN IF Truthy(MarkFn(cond))
         THEN [b |-> MarkFn(cond) = val, log |-> <<>>, depth |-> 1, err |-> FALSE]
         ELSE IF evaluate /\ cond # Default
              THEN [b |-> Truthy(CallFn(cond, <<val>>)),
                    log |-> <<Event(cond, <<val>>)>>, depth |-> 1, err |-> FALSE]
              ELSE NoMatch
    ELSE IF isObjectLike(cond)
    THEN IF HasT(cond)
         THEN IF isLike(cond, val)
              THEN IF ReadRaises(val)
                   THEN Deeper(Raised)
                   ELSE Deeper(matches(cond.Val, val.Val, FALSE))
              ELSE NoMatch
         ELSE IF isObjectLike(val) /\ IsArray(cond) = IsArray(val)
              THEN Deeper(matchesKeys(cond, val, evaluate, 1))
              ELSE NoMatch
    ELSE NoMatch

\* matches looking through a container candidate when the condition is not
\* one: the candidate is unwrapped and tested again.
matchesUnwrapsCandidate(cond, val, evaluate) ==
    IF cond = Default \/ cond = val
    THEN IsMatch
    ELSE IF IsFunction(cond)
    THEN IF Truthy(MarkFn(cond))
         THEN [b |-> MarkFn(cond) = val, log |-> <<>>, depth |-> 1, err |-> FALSE]
         ELSE IF evaluate
              THEN [b |-> Truthy(CallFn(cond, <<val>>)),
                    log |-> <<Event(cond, <<val>>)>>, depth |-> 1, err |-> FALSE]
              ELSE NoMatch
    ELSE IF isObjectLike(cond)
    THEN IF HasT(cond)
         THEN IF isLike(cond, val)
              THEN IF ReadRaises(val)
                   THEN Deeper(Raised)
                   ELSE Deeper(matches(cond.Val, val.Val, FALSE))
              ELSE NoMatch
         ELSE IF isObjectLike(val) /\ IsArray(cond) = IsArray(val)
              THEN Deeper(matchesKeys(cond, val, evaluate, 1))
              ELSE NoMatch
    ELSE IF HasT(val)
    THEN Deeper(matches(cond, val.Val, evaluate))
    ELSE NoMatch

\* matches entering the key loop without asking whether the candidate is an
\* object: only the array flags are compared.
matchesTrustsCandidate(cond, val, evaluate) ==
    IF cond = Default \/ cond = val
    THEN IsMatch
    ELSE IF IsFunction(cond)
    THEN IF Truthy(MarkFn(cond))
         THEN [b |-> MarkFn(cond) = val, log |-> <<>>, depth |-> 1, err |-> FALSE]
         ELSE IF evaluate
              THEN [b |-> Truthy(CallFn(cond, <<val>>)),
                    log |-> <<Event(cond, <<val>>)>>, depth |-> 1, err |-> FALSE]
              ELSE NoMatch
    ELSE IF isObjectLike(cond)
    THEN IF HasT(cond)
         THEN IF isLike(cond, val)
              THEN IF ReadRaises(val)
                   THEN Deeper(Raised)
                   ELSE Deeper(matches(cond.Val, val.Val, FALSE))
              ELSE NoMatch
         ELSE IF IsArray(cond) = IsArray(val)
              THEN Deeper(matchesKeys(cond, val, evaluate, 1))
              ELSE NoMatch
    ELSE NoMatch

\* matches evaluating a function condition before comparing it with the
\* candidate.
matchesPredicateFirst(cond, val, evaluate) ==
    IF cond = Default
    THEN IsMatch
    ELSE IF IsFunction(cond)
    THEN IF Truthy(MarkFn(cond))
         THEN [b |-> MarkFn(cond) = val, log |-> <<>>, depth |-> 1, err |-> FALSE]
         ELSE IF evaluate
              THEN [b |-> Truthy(CallFn(cond, <<val>>)),
                    log |-> <<Event(cond, <<val>>)>>, depth |-> 1, err |-> FALSE]
              ELSE NoMatch
    ELSE IF cond = val
    THEN IsMatch
    ELSE IF isObjectLike(cond)
    THEN IF HasT(cond)
         THEN IF isLike(cond, val)
              THEN IF ReadRaises(val)
                   THEN Deeper(Raised)
                   ELSE Deeper(matches(cond.Val, val.Val, FALSE))
              ELSE NoMatch
         ELSE IF isObjectLike(val) /\ IsArray(cond) = IsArray(val)
              THEN Deeper(matchesKeys(cond, val, evaluate, 1))
              ELSE NoMatch
    ELSE NoMatch

matches(cond, val, evaluate) ==
    IF cond = Default \/ cond = val
    THEN IsMatch
    ELSE IF IsFunction(cond)
    THEN IF Truthy(MarkFn(cond))
         THEN [b |-> MarkFn(cond) = val, log |-> <<>>, depth |-> 1, err |-> FALSE]
         ELSE IF evaluate
              THEN [b |-> Truthy(CallFn(cond, <<val>>)),
                    log |-> <<Event(cond, <<val>>)>>, depth |-> 1, err |-> FALSE]
              ELSE NoMatch
    ELSE IF isObjectLike(cond)
    THEN IF HasT(cond)
         THEN IF isLike(cond, val)
              THEN IF ReadRaises(val)
                   THEN Deeper(Raised)
                   ELSE Deeper(matches(cond.Val, val.Val, FALSE))
              ELSE NoMatch
         ELSE IF isObjectLike(val) /\ IsArray(cond) = IsArray(val)
              THEN Deeper(matchesKeys(cond, val, evaluate, 1))
              ELSE NoMatch
    ELSE NoMatch

(***************************************************************************)
(* The dispatchers.  The result is [out, log]: the value returned (or the  *)
(* error thrown) and the function invocations made on the way.             *)
(***************************************************************************)
\* The call f(args) as a dispatcher's final step.
Invoke(f, args) == [out |-> CallFn(f, args), log |-> <<Event(f, args)>>]
Return(x) == [out |-> x, log |-> <<>>]

RECURSIVE matchChainedFrom(_, _, _, _)

\* matchChained without the short-circuit: after a branch matches, the
\* conditions of the later branches are still tested.
matchChainedFromKeepsTesting(val, pattern, defaultBranch, i) ==
    IF i > Len(pattern.items)
    THEN Invoke(defaultBranch, <<>>)
    ELSE LET branch == pattern.items[i] IN
         IF IsFunction(branch)
         THEN IF Truthy(MarkFn(branch))
              THEN Return(MarkFn(branch))
              ELSE Invoke(branch, <<>>)
         ELSE LET c == Get(branch, "0")
                  result == Get(branch, "1")
                  m == matches(c, val, TRUE)
                  rest == matchChainedFrom(val, pattern, defaultBranch, i + 1)
              IN  IF m.err
                  THEN [out |-> TypeError, log |-> m.log]
                  ELSE IF m.b
                  THEN IF IsFunction(result)
                       THEN IF Truthy(MarkFn(result))
                            THEN [out |-> MarkFn(result), log |-> m.log \o rest.log]
                            ELSE [out |-> CallFn(result, <<val>>),
                                  log |-> m.log \o rest.log \o <<Event(result, <<val>>)>>]
                       ELSE [out |-> result, log |-> m.log \o rest.log]
                  ELSE [out |-> rest.out, log |-> m.log \o rest.log]

\* matchChained without the MarkFn test on results: every function result
\* is called.
matchChainedFromCallsWrapped(val, pattern, defaultBranch, i) ==
    IF i > Len(pattern.items)
    THEN Invoke(defaultBranch, <<>>)
    ELSE LET branch == pattern.items[i] IN
         IF IsFunction(branch)
         THEN IF Truthy(MarkFn(branch))
              THEN Return(MarkFn(branch))
              ELSE Invoke(branch, <<>>)
         ELSE LET c == Get(branch, "0")
                  result == Get(branch, "1")
                  m == matches(c, val, TRUE)
              IN  IF m.err
                  THEN [out |-> TypeError, log |-> m.log]
                  ELSE IF m.b
                  THEN IF IsFunction(result)
                       THEN [out |-> CallFn(result, <<val>>),
                             log |-> m.log \o <<Event(result, <<val>>)>>]
                       ELSE [out |-> result, log |-> m.log]
                  ELSE LET rest == matchChainedFrom(val, pattern, defaultBranch, i + 1)
                       IN  [out |-> rest.out, log |-> m.log \o rest.log]

\* matchChained taking a bare function for the default only when it is the
\* last entry, and stepping over it anywhere else.
matchChainedFromSkipsMidBare(val, pattern, defaultBranch, i) ==
    IF i > Len(pattern.items)
    THEN Invoke(defaultBranch, <<>>)
    ELSE LET branch == pattern.items[i] IN
         IF IsFunction(branch) /\ i < Len(pattern.items)
         THEN matchChainedFrom(val, pattern, defaultBranch, i + 1)
         ELSE IF IsFunction(branch)
         THEN IF Truthy(MarkFn(branch))
              THEN Return(MarkFn(branch))
              ELSE Invoke(branch, <<>>)
         ELSE IF ~IsArray(branch)
         THEN Return(TypeError)
         ELSE LET c == Get(branch, "0")
                  result == Get(branch, "1")
                  m == matches(c, val, TRUE)
              IN  IF m.err
                  THEN [out |-> TypeError, log |-> m.log]
                  ELSE IF m.b
                  THEN IF IsFunction(result)
                       THEN IF Truthy(MarkFn(result))
                            THEN [out |-> MarkFn(result), log |-> m.log]
                            ELSE [out |-> CallFn(result, <<val>>),
                                  log |-> m.log \o <<Event(result, <<val>>)>>]
                       ELSE [out |-> result, log |-> m.log]
                  ELSE LET rest == matchChainedFrom(val, pattern, defaultBranch, i + 1)
                       IN  [out |-> rest.out, log |-> m.log \o rest.log]

\* matchChained calling a result function the way it calls a default:
\* without the candidate.
matchChainedFromBareResult(val, pattern, defaultBranch, i) ==
    IF i > Len(pattern.items)
    THEN Invoke(defaultBranch, <<>>)
    ELSE LET branch == pattern.items[i] IN
         IF IsFunction(branch)
         THEN IF Truthy(MarkFn(branch))
              THEN Return(MarkFn(branch))
              ELSE Invoke(branch, <<>>)
         ELSE IF ~IsArray(branch)
         THEN Return(TypeError)
         ELSE LET c == Get(branch, "0")
                  result == Get(branch, "1")
                  m == matches(c, val, TRUE)
              IN  IF m.err
                  THEN [out |-> TypeError, log |-> m.log]
                  ELSE IF m.b
                  THEN IF IsFunction(result)
                       THEN IF Truthy(MarkFn(result))
                            THEN [out |-> MarkFn(result), log |-> m.log]
                            ELSE [out |-> CallFn(result, <<>>),
                                  log |-> m.log \o <<Event(result, <<>>)>>]
                       ELSE [out |-> result, log |-> m.log]
                  ELSE LET rest == matchChainedFrom(val, pattern, defaultBranch, i + 1)
                       IN  [out |-> rest.out, log |-> m.log \o rest.log]

\* The for-of loop of matchChained, from the i-th entry on.
matchChainedFrom(val, pattern, defaultBranch, i) ==
    IF i > Len(pattern.items)
    THEN Invoke(defaultBranch, <<>>)
    ELSE LET branch == pattern.items[i] IN
         IF IsFunction(branch)
         THEN IF Truthy(MarkFn(branch))
              THEN Return(MarkFn(branch))
              ELSE Invoke(branch, <<>>)
         ELSE IF ~IsArray(branch)
         THEN Return(TypeError)
         ELSE LET c == Get(branch, "0")
                  result == Get(branch, "1")
                  m == matches(c, val, TRUE)
              IN  IF m.err
                  THEN [out |-> TypeError, log |-> m.log]
                  ELSE IF m.b
                  THEN IF IsFunction(result)
                       THEN IF Truthy(MarkFn(result))
                            THEN [out |-> MarkFn(result), log |-> m.log]
                            ELSE [out |-> CallFn(result, <<val>>),
                                  log |-> m.log \o <<Event(result, <<val>>)>>]
                       ELSE [out |-> result, log |-> m.log]
                  ELSE LET rest == matchChainedFrom(val, pattern, defaultBranch, i + 1)
                       IN  [out |-> rest.out, log |-> m.log \o rest.log]

\* matchChained forgetting the default it was handed: an ordered pattern
\* without a bare function of its own ends in the exhausted error.
matchChainedDropsDefault(val, pattern, defaultBranch) ==
    matchChainedFrom(val, pattern, Default, 1)

matchChained(val, pattern, defaultBranch) ==
    matchChainedFrom(val, pattern, defaultBranch, 1)

RECURSIVE matchMapped(_, _, _)
RECURSIVE matchDispatch(_, _, _)

\* The default choice without inheritance: a level without `_` falls back
\* to the exhausted error.
OwnOrExhausted(pattern, defaultBranch) ==
    IF IsFunction(Get(pattern, "_")) THEN Get(pattern, "_") ELSE Default

\* The default choice backwards: an inherited default outranks the level's
\* own `_`.
InheritedOrOwn(pattern, defaultBranch) ==
    IF defaultBranch # Default THEN defaultBranch
    ELSE IF IsFunction(Get(pattern, "_")) THEN Get(pattern, "_") ELSE defaultBranch

\* typeof pattern._ === "function" ? pattern._ : defaultBranch
OwnOrInherited(pattern, defaultBranch) ==
    IF IsFunction(Get(pattern, "_")) THEN Get(pattern, "_") ELSE defaultBranch

\* matchMapped without the final else: a candidate that is no container
\* falls through to the default.
matchMappedNoElse(val, pattern, defaultBranch) ==
    LET fallback == Invoke(OwnOrInherited(pattern, defaultBranch), <<>>) IN
    IF OptionIs(val)
    THEN IF val.T
         THEN IF Truthy(Get(pattern, "Some"))
              THEN IF IsFunction(Get(pattern, "Some"))
                   THEN Invoke(Get(pattern, "Some"), <<val.Val>>)
                   ELSE matchDispatch(val.Val, Get(pattern, "Some"),
                                      OwnOrInherited(pattern, defaultBranch))
              ELSE fallback
         ELSE IF IsFunction(Get(pattern, "None"))
              THEN Invoke(Get(pattern, "None"), <<>>)
              ELSE fallback
    ELSE IF ResultIs(val)
    THEN LET Branch == IF val.T THEN Get(pattern, "Ok") ELSE Get(pattern, "Err") IN
         IF Truthy(Branch)
         THEN IF IsFunction(Branch)
              THEN Invoke(Branch, <<val.Val>>)
              ELSE matchDispatch(val.Val, Branch,
                                 OwnOrInherited(pattern, defaultBranch))
         ELSE fallback
    ELSE fallback

\* matchMapped reading the arm of an Ok under the name of the other kind.
matchMappedConfusesKinds(val, pattern, defaultBranch) ==
    LET fallback == Invoke(OwnOrInherited(pattern, defaultBranch), <<>>) IN
    IF OptionIs(val)
    THEN IF val.T
         THEN IF Truthy(Get(pattern, "Some"))
              THEN IF IsFunction(Get(pattern, "Some"))
                   THEN Invoke(Get(pattern, "Some"), <<val.Val>>)
                   ELSE matchDispatch(val.Val, Get(pattern, "Some"),
                                      OwnOrInherited(pattern, defaultBranch))
              ELSE fallback
         ELSE IF IsFunction(Get(pattern, "None"))
              THEN Invoke(Get(pattern, "None"), <<>>)
              ELSE fallback
    ELSE IF ResultIs(val)
    THEN LET Branch == IF val.T THEN Get(pattern, "Some") ELSE Get(pattern, "Err") IN
         IF Truthy(Branch)
         THEN IF IsFunction(Branch)
              THEN Invoke(Branch, <<val.Val>>)
              ELSE matchDispatch(val.Val, Branch,
                                 OwnOrInherited(pattern, defaultBranch))
         ELSE fallback
    ELSE Return(throwInvalidPattern)

\* matchMapped handing a nested arm the container instead of what the
\* container holds.
matchMappedKeepsWrapping(val, pattern, defaultBranch) ==
    LET fallback == Invoke(OwnOrInherited(pattern, defaultBranch), <<>>) IN
    IF OptionIs(val)
    THEN IF val.T
         THEN IF Truthy(Get(pattern, "Some"))
              THEN IF IsFunction(Get(pattern, "Some"))
                   THEN Invoke(Get(pattern, "Some"), <<val.Val>>)
                   ELSE matchDispatch(val, Get(pattern, "Some"),
                                      OwnOrInherited(pattern, defaultBranch))
              ELSE fallback
         ELSE IF IsFunction(Get(pattern, "None"))
              THEN Invoke(Get(pattern, "None"), <<>>)
              ELSE fallback
    ELSE IF ResultIs(val)
    THEN LET Branch == IF val.T THEN Get(pattern, "Ok") ELSE Get(pattern, "Err") IN
         IF Truthy(Branch)
         THEN IF IsFunction(Branch)
              THEN Invoke(Branch, <<val.Val>>)
              ELSE matchDispatch(val, Branch,
                                 OwnOrInherited(pattern, defaultBranch))
         ELSE fallback
    ELSE Return(throwInvalidPattern)

\* matchMapped recovering from an invalid pattern met in a nested arm: a
\* level that declares `_` answers with it.
matchMappedRecovers(val, pattern, defaultBranch) ==
    LET fallback == Invoke(OwnOrInherited(pattern, defaultBranch), <<>>)
        Recover(r) == IF r.out = InvalidPattern /\ IsFunction(Get(pattern, "_"))
                      THEN fallback
                      ELSE r
    IN
    IF OptionIs(val)
    THEN IF val.T
         THEN IF Truthy(Get(pattern, "Some"))
              THEN IF IsFunction(Get(pattern, "Some"))
                   THEN Invoke(Get(pattern, "Some"), <<val.Val>>)
                   ELSE Recover(matchDispatch(val.Val, Get(pattern, "Some"),
                                      OwnOrInherited(pattern, defaultBranch)))
              ELSE fallback
         ELSE IF IsFunction(Get(pattern, "None"))
              THEN Invoke(Get(pattern, "None"), <<>>)
              ELSE fallback
    ELSE IF ResultIs(val)
    THEN LET Branch == IF val.T THEN Get(pattern, "Ok") ELSE Get(pattern, "Err") IN
         IF Truthy(Branch)
         THEN IF IsFunction(Branch)
              THEN Invoke(Branch, <<val.Val>>)
              ELSE Recover(matchDispatch(val.Val, Branch,
                                 OwnOrInherited(pattern, defaultBranch)))
         ELSE fallback
    ELSE Return(throwInvalidPattern)

\* matchMapped treating a wrapper the way matchChained does: a wrapped arm
\* or `_` is not invoked, the function it wraps is returned.
matchMappedReturnsWrapped(val, pattern, defaultBranch) ==
    LET Run(f, args) == IF Truthy(MarkFn(f)) THEN Return(MarkFn(f)) ELSE Invoke(f, args)
        fallback == Run(OwnOrInherited(pattern, defaultBranch), <<>>)
    IN
    IF OptionIs(val)
    THEN IF val.T
         THEN IF Truthy(Get(pattern, "Some"))
              THEN IF IsFunction(Get(pattern, "Some"))
                   THEN Run(Get(pattern, "Some"), <<val.Val>>)
                   ELSE matchDispatch(val.Val, Get(pattern, "Some"),
                                      OwnOrInherited(pattern, defaultBranch))
              ELSE fallback
         ELSE IF IsFunction(Get(pattern, "None"))
              THEN Run(Get(pattern, "None"), <<>>)
              ELSE fallback
    ELSE IF ResultIs(val)
    THEN LET Branch == IF val.T THEN Get(pattern, "Ok") ELSE Get(pattern, "Err") IN
         IF Truthy(Branch)
         THEN IF IsFunction(Branch)
              THEN Run(Branch, <<val.Val>>)
              ELSE matchDispatch(val.Val, Branch,
                                 OwnOrInherited(pattern, defaultBranch))
         ELSE fallback
    ELSE Return(throwInvalidPattern)

matchMapped(val, pattern, defaultBranch) ==
    LET fallback == Invoke(OwnOrInherited(pattern, defaultBranch), <<>>) IN
    IF OptionIs(val)
    THEN IF val.T
         THEN IF Truthy(Get(pattern, "Some"))
              THEN IF IsFunction(Get(pattern, "Some"))
                   THEN Invoke(Get(pattern, "Some"), <<val.Val>>)
                   ELSE matchDispatch(val.Val, Get(pattern, "Some"),
                                      OwnOrInherited(pattern, defaultBranch))
              ELSE fallback
         ELSE IF IsFunction(Get(pattern, "None"))
              THEN Invoke(Get(pattern, "None"), <<>>)
              ELSE fallback
    ELSE IF ResultIs(val)
    THEN LET Branch == IF val.T THEN Get(pattern, "Ok") ELSE Get(pattern, "Err") IN
         IF Truthy(Branch)
         THEN IF IsFunction(Branch)
              THEN Invoke(Branch, <<val.Val>>)
              ELSE matchDispatch(val.Val, Branch,
                                 OwnOrInherited(pattern, defaultBranch))
         ELSE fallback
    ELSE Return(throwInvalidPattern)

\* matchDispatch without the isObjectLike test: whatever is no array goes
\* to the keyed dispatcher.
matchDispatchNoShapeTest(val, pattern, defaultBranch) ==
    IF IsArray(pattern)
    THEN matchChained(val, pattern, defaultBranch)
    ELSE matchMapped(val, pattern, defaultBranch)

matchDispatch(val, pattern, defaultBranch) ==
    IF IsArray(pattern)
    THEN matchChained(val, pattern, defaultBranch)
    ELSE IF isObjectLike(pattern)
    THEN matchMapped(val, pattern, defaultBranch)
    ELSE Return(throwInvalidPattern)

\* match with an outermost default that returns undefined instead of
\* throwing.
matchSilentDefault(val, pattern) == matchDispatch(val, pattern, Func(99, "arg"))

match(val, pattern) == matchDispatch(val, pattern, Default)

\* compile(pattern): the function `(val) => match(val, pattern)`, which
\* keeps the pattern it was made for.
compile(pattern) == [k |-> "function", id |-> 70, beh |-> "compiled", pattern |-> pattern]

\* The compiled function handing its two values to match the wrong way
\* round.
compiledSwapsArguments(fn, val) == match(fn.pattern, val)

\* fn(val), for a function fn made by compile.
compiled(fn, val) == match(val, fn.pattern)

(***************************************************************************)
(* The functions, conditions, patterns and candidates the model explores.  *)
(***************************************************************************)
returnTrue == Func(1, "true")
returnFalse == Func(2, "false")
identityFn == Func(3, "arg")
tagFn == Func(4, "tag")
defaultFn == Func(5, "tag")
spyPred == Func(6, "true")
spyResult == Func(7, "tag")

\* Fn(returnTrue), Fn(tagFn): two wrappers made before matching starts.
\* async () => "some ok" as the result of a branch.
asyncFn == Func(10, "async")

\* (x) => x as the default of a chain: its value shows what it was handed.
echoDefault == Func(9, "arg")

wrappedTrue == Fn(20, returnTrue)
wrappedTag == Fn(21, tagFn)

Nums == {Num(n) : n \in 0..MaxNum}

\* All sequences over S of length at most n.
RECURSIVE SeqsUpTo(_, _)
SeqsUpTo(S, n) ==
    IF n = 0
    THEN {<<>>}
    ELSE LET shorter == SeqsUpTo(S, n - 1) IN
         shorter \cup {Append(q, x) : q \in {t \in shorter : Len(t) = n - 1}, x \in S}

\* A branch [cond, result] of an ordered pattern.
BranchOf(c, result) == Arr(9, <<c, result>>)

ChainBranches ==
    {BranchOf(n, Str("num")) : n \in Nums}
        \cup {BranchOf(Num(1), identityFn),
              BranchOf(returnTrue, Str("yes")),
              BranchOf(returnFalse, Str("no")),
              BranchOf(spyPred, spyResult),
              BranchOf(Default, wrappedTag),
              BranchOf(wrappedTrue, Str("fn true")),
              BranchOf(SomeAt(2, Num(1)), tagFn),
              BranchOf(Str("x"), asyncFn)}

\* The sequence q with x put in after its first p entries.
InsertAt(q, p, x) == SubSeq(q, 1, p) \o <<x>> \o SubSeq(q, p + 1, Len(q))

\* Ordered patterns: branches, then nothing or a default (a function, the
\* sentinel or an Fn wrapper); and the shape the types exclude, a bare
\* function with branches after it.
ChainedPatterns ==
    LET bs == SeqsUpTo(ChainBranches, MaxBranches) IN
    {Arr(9, q) : q \in bs}
        \cup {Arr(9, Append(q, d)) :
                  q \in bs, d \in {defaultFn, echoDefault, Default, wrappedTag}}
        \cup UNION {{Arr(9, InsertAt(q, p, d)) : p \in 0..(Len(q) - 1)} :
                        q \in bs \ {<<>>}, d \in {defaultFn, wrappedTag}}

ChainCandidates ==
    Nums \cup {Undef, Null, Str("x"), returnTrue, tagFn, wrappedTrue,
               SomeAt(1, Num(1))}

\* The plain-function arm and the `_` producer of nesting level n (level 1
\* is the innermost): one function per level, so a log tells them apart.
armFn(n) == Func(30 + n, "arg")
levelDefault(n) == Func(40 + n, "tag")
chainDefault == Func(50, "tag")

\* Ordered patterns used as the arm of a keyed pattern.
ChainedArms ==
    {Arr(9, <<BranchOf(Num(1), Str("one"))>>),
     Arr(9, <<BranchOf(Num(1), Str("one")), chainDefault>>)}

\* Keyed patterns of at most n levels: at most one arm, with or without `_`.
RECURSIVE KeyedAt(_)
KeyedAt(n) ==
    LET nested == {armFn(n)} \cup ChainedArms
                      \cup (IF n > 1 THEN KeyedAt(n - 1) ELSE {})
        arms == {<<>>}
                    \cup {<<Prop(key, a)>> : key \in {"Some", "Ok"}, a \in nested}
                    \cup {<<Prop(key, armFn(n))>> : key \in {"None", "Err"}}
        defaults == {<<>>, <<Prop("_", levelDefault(n))>>}
    IN  {Obj(9, a \o d) : a \in arms, d \in defaults}

\* One arm per variant, each with a function of its own.
someFn == Func(61, "arg")
noneFn == Func(62, "arg")
okFn == Func(63, "arg")
errFn == Func(64, "arg")

UnionPatterns ==
    {Obj(9, <<Prop("Some", someFn), Prop("Ok", okFn),
              Prop("Err", errFn), Prop("None", noneFn)>> \o d) :
        d \in {<<>>, <<Prop("_", levelDefault(1))>>}}

\* A nested pattern, ordered or keyed, as the arm of None and of Err.
NestedArmPatterns ==
    {Obj(9, <<Prop(key, a)>> \o d) :
        key \in {"None", "Err"},
        a \in ChainedArms \cup {Obj(9, <<Prop("Some", armFn(1))>>)},
        d \in {<<>>, <<Prop("_", levelDefault(1))>>}}

\* An ordered arm whose branch has a function for result.
ResultArmPatterns ==
    {Obj(9, <<Prop(key, Arr(9, <<BranchOf(Num(1), identityFn)>>))>>) :
        key \in {"Some", "Ok", "Err"}}

\* A wrapper as the arm of each variant, and as the `_` of a level.
WrappedArmPatterns ==
    {Obj(9, <<Prop(key, wrappedTag)>>) : key \in {"Some", "None", "Ok", "Err", "_"}}
        \cup {Obj(9, <<Prop("Some", armFn(1)), Prop("_", wrappedTag)>>)}

KeyedPatterns ==
    KeyedAt(MaxLevels) \cup UnionPatterns \cup NestedArmPatterns
        \cup ResultArmPatterns \cup WrappedArmPatterns

\* Containers nested at most n deep around the payload 1.
RECURSIVE ContainersAt(_)
ContainersAt(n) ==
    IF n = 0
    THEN {Num(1)}
    ELSE LET inner == ContainersAt(n - 1) IN
         {Num(1), None}
             \cup {SomeAt(1, x) : x \in inner}
             \cup {OkAt(1, x) : x \in inner}
             \cup {ErrAt(1, x) : x \in inner}

KeyedCandidates ==
    ContainersAt(MaxLevels)
        \cup {Undef, Null, Str("never"), returnTrue,
              Obj(1, <<Prop("Some", Num(1))>>), Arr(1, <<Num(1)>>)}

\* Conditions and candidates for the condition evaluator: atoms, then one
\* and two levels of containers, objects and arrays around them.  Conditions
\* are allocated at ref 2 and candidates at ref 1, so that they are distinct
\* objects even when their contents agree.
Atoms == Nums \cup {Undef, Null, Default, returnTrue, returnFalse, wrappedTrue}

Wrapped(ref, S) ==
    {None} \cup {SomeAt(ref, x) : x \in S}
           \cup {OkAt(ref, x) : x \in S}
           \cup {ErrAt(ref, x) : x \in S}

Shaped(ref, S) ==
    {Obj(ref, <<Prop("a", x)>>) : x \in S} \cup {Arr(ref, <<x>>) : x \in S}

ValuesAt(ref) ==
    LET one == Wrapped(ref, Atoms) \cup Shaped(ref, Atoms) IN
    Atoms \cup one
          \cup {SomeAt(ref, x) : x \in one}
          \cup {OkAt(ref, x) : x \in one}
          \cup {Obj(ref, <<Prop("a", x)>>) : x \in Wrapped(ref, Atoms)}

CondCandidates == ValuesAt(1)

\* The conditions include three objects that are also candidates: a
\* condition may be the very object it is tested against.
Conditions ==
    ValuesAt(2)
        \cup {SomeAt(1, returnFalse), SomeAt(1, wrappedTrue),
              Obj(1, <<Prop("a", returnFalse)>>)}

missFn == Func(8, "tag")

\* Objects and arrays of up to MaxKeys entries, for partial matching.  The
\* keys of an object are a selection of keyNames, in that order.
MaxKeys == 2

RECURSIVE KeySelections(_)
KeySelections(keyNames) ==
    IF keyNames = <<>>
    THEN {<<>>}
    ELSE LET rest == KeySelections(Tail(keyNames)) IN
         rest \cup {<<Head(keyNames)>> \o q : q \in {t \in rest : Len(t) < MaxKeys}}

ObjectsOver(ref, keyNames, S) ==
    UNION {{Obj(ref, [i \in 1..Len(ks) |-> Prop(ks[i], vs[i])]) :
               vs \in [1..Len(ks) -> S]} : ks \in KeySelections(keyNames)}

ArraysOver(ref, S) == {Arr(ref, q) : q \in SeqsUpTo(S, MaxKeys)}

\* The entries of a condition include two predicates: one that accepts
\* everything and (x) => x, which accepts the truthy values.
ShapeConditions ==
    LET S == Nums \cup {Default, returnTrue, identityFn} IN
    ObjectsOver(2, <<"0", "a", "toString">>, S) \cup ArraysOver(2, S)
        \cup {SomeAt(2, Obj(2, <<Prop("a", identityFn)>>)),
              OkAt(2, Arr(2, <<identityFn>>))}

ShapeCandidates ==
    LET S == Nums \cup {Undef} IN
    ObjectsOver(1, <<"0", "a">>, S) \cup ArraysOver(1, S)
        \cup {Undef, Null, Num(1), None, SomeAt(1, Num(1)), OkAt(1, Num(1)),
              SomeAt(1, Obj(1, <<Prop("a", Num(1))>>)),
              OkAt(1, Arr(1, <<Num(1)>>))}

(***************************************************************************)
(* The operations of a client: one call of match, or one call of matches.  *)
(***************************************************************************)
Pending == [k |-> "pending"]

\* The functions the module exports besides the sentinel: match, its
\* property match.compile, and Fn.
matchFunction == [k |-> "function", id |-> 80, beh |-> "match"]
compileFunction == [k |-> "function", id |-> 81, beh |-> "compile"]
FnFunction == [k |-> "function", id |-> 82, beh |-> "Fn"]

\* Module initialization with the freeze of compile left out.
ModuleFrozenSansCompile == {matchFunction, Default, FnFunction}

\* The objects frozen when the module has been loaded.
ModuleFrozen == {matchFunction, Default, FnFunction, compileFunction}

\* A call of Fn that hands its wrapper out unfrozen.
FnFreezesNothing(val) == {}

\* Object.freeze(val) in Fn: what a call of Fn freezes.
FnFreezes(val) == {val}

Start ==
    /\ outcome = Pending
    /\ calls = <<>>
    /\ pc = "ready"
    /\ matcher = Undef
    /\ uses = 0
    /\ frozen = ModuleFrozen \cup FnFreezes(wrappedTrue) \cup FnFreezes(wrappedTag)
    /\ tampered = {}
    /\ depth = 0

\* A call of match that consumes the ordered pattern it scans, shifting its
\* first entry off.
MatchShiftsPattern ==
    /\ pc = "ready"
    /\ LET r == match(candidate, patt) IN
         /\ outcome' = r.out
         /\ calls' = r.log
    /\ pc' = "matched"
    /\ patt' = (IF IsArray(patt) /\ Len(patt.items) > 0
                THEN Arr(patt.ref, Tail(patt.items))
                ELSE patt)
    /\ UNCHANGED <<candidate, condition, evalFlag, matcher, uses, frozen, tampered, depth>>

\* match(candidate, patt)
Match ==
    /\ pc = "ready"
    /\ LET r == match(candidate, patt) IN
         /\ outcome' = r.out
         /\ calls' = r.log
    /\ pc' = "matched"
    /\ UNCHANGED <<candidate, patt, condition, evalFlag, matcher, uses, frozen, tampered, depth>>

\* matches(condition, candidate, evalFlag)
Evaluate ==
    /\ pc = "ready"
    /\ LET m == matches(condition, candidate, evalFlag) IN
         /\ outcome' = IF m.err THEN TypeError ELSE Bool(m.b)
         /\ calls' = m.log
         /\ depth' = m.depth
    /\ pc' = "evaluated"
    /\ UNCHANGED <<candidate, patt, condition, evalFlag, matcher, uses, frozen, tampered>>

\* matcher = match.compile(patt)
Compile ==
    /\ pc = "ready"
    /\ matcher' = compile(patt)
    /\ pc' = "compiled"
    /\ UNCHANGED <<candidate, patt, condition, evalFlag, outcome, calls, uses,
                   frozen, tampered, depth>>

\* The candidates a client may hand to the compiled function next: the one
\* it holds, what that one contains, or one of two fixed values.
Reuse(c) ==
    {c, Num(1), SomeAt(1, Num(1))} \cup (IF HasT(c) THEN {c.Val} ELSE {})

\* matcher(v), any number of times up to MaxUses.
Apply ==
    /\ pc \in {"compiled", "applied"}
    /\ uses < MaxUses
    /\ \E v \in Reuse(candidate) :
         /\ candidate' = v
         /\ LET r == compiled(matcher, v) IN
              /\ outcome' = r.out
              /\ calls' = r.log
    /\ uses' = uses + 1
    /\ pc' = "applied"
    /\ UNCHANGED <<patt, condition, evalFlag, matcher, frozen, tampered, depth>>

\* _()
CallDefault ==
    /\ pc = "ready"
    /\ LET r == Invoke(Underscore, <<>>) IN
         /\ outcome' = r.out
         /\ calls' = r.log
    /\ pc' = "calledDefault"
    /\ UNCHANGED <<candidate, patt, condition, evalFlag, matcher, uses, frozen, tampered, depth>>

\* Fn(f)(), for one of the wrappers.
CallWrapper ==
    /\ pc = "ready"
    /\ \E w \in {wrappedTrue, wrappedTag} :
         LET r == Invoke(w, <<>>) IN
         /\ outcome' = r.out
         /\ calls' = r.log
    /\ pc' = "calledWrapper"
    /\ UNCHANGED <<candidate, patt, condition, evalFlag, matcher, uses, frozen, tampered, depth>>

\* Fn(tagFn): a further wrapper, made and frozen by the call.
Wrap ==
    /\ pc = "ready"
    /\ LET val == Fn(22, tagFn) IN
         /\ outcome' = val
         /\ frozen' = frozen \cup FnFreezes(val)
    /\ pc' = "wrapped"
    /\ UNCHANGED <<candidate, patt, condition, evalFlag, calls, matcher, uses, tampered, depth>>

\* What a client holding the module's exports can try to write to: the
\* exports, the wrappers, and the function compile has returned.
Targets ==
    ModuleFrozen \cup {Underscore, wrappedTrue, wrappedTag}
        \cup (IF pc = "wrapped" THEN {outcome} ELSE {matcher})

\* target.x = 1 in strict mode: a frozen object refuses the write with a
\* TypeError, any other object takes it.
Assign ==
    /\ pc \in {"wrapped", "compiled"}
    /\ \E target \in Targets :
         IF target \in frozen
         THEN outcome' = TypeError /\ tampered' = tampered
         ELSE outcome' = Num(1) /\ tampered' = tampered \cup {target}
    /\ pc' = "assigned"
    /\ UNCHANGED <<candidate, patt, condition, evalFlag, calls, matcher, uses, frozen, depth>>

Next ==
    \/ Match \/ Evaluate \/ Compile \/ Apply \/ CallDefault \/ CallWrapper
    \/ Wrap \/ Assign

\* The first condition an ordered pattern tests, if it has one.
FirstCond(pattern) ==
    IF IsArray(pattern) /\ Len(pattern.items) > 0 /\ IsArray(pattern.items[1])
    THEN Get(pattern.items[1], "0")
    ELSE Default

InitChained ==
    /\ patt \in ChainedPatterns
    /\ candidate \in ChainCandidates
    /\ condition = FirstCond(patt)
    /\ evalFlag = TRUE
    /\ Start

SpecChained == InitChained /\ [][Next]_vars

InitKeyed ==
    /\ patt \in KeyedPatterns
    /\ candidate \in KeyedCandidates
    /\ condition = Default
    /\ evalFlag = TRUE
    /\ Start

SpecKeyed == InitKeyed /\ [][Next]_vars

\* The condition alone in an ordered pattern, or handed over as the pattern
\* itself.
InitCond ==
    /\ condition \in Conditions
    /\ candidate \in CondCandidates
    /\ evalFlag \in BOOLEAN
    /\ patt \in {Arr(9, <<BranchOf(condition, Str("hit")), missFn>>), condition}
    /\ Start

SpecCond == InitCond /\ [][Next]_vars

\* An object or array condition, alone in an ordered pattern.
InitShape ==
    /\ condition \in ShapeConditions
    /\ candidate \in ShapeCandidates
    /\ evalFlag \in BOOLEAN
    /\ patt = Arr(9, <<BranchOf(condition, Str("hit")), missFn>>)
    /\ Start

SpecShape == InitShape /\ [][Next]_vars

Init == InitChained \/ InitKeyed

Spec == Init /\ [][Next]_vars

(***************************************************************************)
(* Vocabulary of the properties.                                           *)
(***************************************************************************)
\* The function values found anywhere inside a value.
RECURSIVE FunctionsIn(_)
FunctionsIn(x) ==
    CASE x.k = "function" -> {x}
      [] x.k \in {"Option", "Result"} -> FunctionsIn(x.Val)
      [] x.k = "array" -> UNION {FunctionsIn(x.items[i]) : i \in 1..Len(x.items)}
      [] x.k = "object" -> UNION {FunctionsIn(x.props[i].val) : i \in 1..Len(x.props)}
      [] OTHER -> {}

\* An ordered pattern as the data model has it: branches, optionally closed
\* by one bare function.
IsOrdered(pattern) ==
    /\ IsArray(pattern)
    /\ \A i \in 1..Len(pattern.items) :
         \/ IsArray(pattern.items[i])
         \/ IsFunction(pattern.items[i]) /\ i = Len(pattern.items)

\* The i-th entry is a branch whose condition matches v.
BranchMatches(pattern, i, v) ==
    /\ IsArray(pattern.items[i])
    /\ matches(Get(pattern.items[i], "0"), v, TRUE).b

HasMatch(pattern, v) ==
    \E i \in 1..Len(pattern.items) : BranchMatches(pattern, i, v)

\* The lowest index of a branch whose condition matches v.
FirstMatch(pattern, v) ==
    CHOOSE i \in 1..Len(pattern.items) :
        /\ BranchMatches(pattern, i, v)
        /\ \A j \in 1..(i - 1) : ~BranchMatches(pattern, j, v)

\* What a branch yields for v, by the three kinds of result.
BranchValue(branch, v) ==
    LET result == Get(branch, "1") IN
    IF ~IsFunction(result) THEN result
    ELSE IF Truthy(MarkFn(result)) THEN MarkFn(result)
    ELSE CallFn(result, <<v>>)

\* The predicate invocations of testing the conditions of entries 1..i.
RECURSIVE CondLog(_, _, _)
CondLog(pattern, v, i) ==
    IF i = 0
    THEN <<>>
    ELSE CondLog(pattern, v, i - 1)
             \o matches(Get(pattern.items[i], "0"), v, TRUE).log

(***************************************************************************)
(* C1: for an ordered pattern and any candidate, match returns the result  *)
(* of the lowest-index branch whose condition matches; every function it   *)
(* invokes belongs to that branch or an earlier one, and invocations       *)
(* follow the source order of the branches.                                *)
(***************************************************************************)
C1_FirstMatchWins ==
    (pc = "matched" /\ IsOrdered(patt) /\ HasMatch(patt, candidate)) =>
        LET i == FirstMatch(patt, candidate)
            Home(f) == {j \in 1..i : f \in FunctionsIn(patt.items[j])}
        IN  /\ outcome = BranchValue(patt.items[i], candidate)
            /\ \A p \in 1..Len(calls) : Home(calls[p].fn) # {}
            /\ \A p, q \in 1..Len(calls) :
                 p < q => \E j \in Home(calls[p].fn), jj \in Home(calls[q].fn) : j <= jj

\* Two branches match, the later one holds a predicate and a result function,
\* and the earlier one decided.
C1_Witness ==
    /\ pc = "matched"
    /\ IsOrdered(patt)
    /\ Len(patt.items) >= 2
    /\ BranchMatches(patt, 1, candidate)
    /\ BranchMatches(patt, 2, candidate)
    /\ patt.items[2] = BranchOf(spyPred, spyResult)
    /\ patt.items[1] # patt.items[2]
    /\ outcome = BranchValue(patt.items[1], candidate)

(***************************************************************************)
(* C9: when the deciding branch's result is Fn(g), match returns g itself, *)
(* invokes nothing beyond the condition predicates and does not raise      *)
(* WrappedFunctionCalled; a non-function result is returned literally.     *)
(***************************************************************************)
C9_FnResultReturnedUncalled ==
    (pc = "matched" /\ IsOrdered(patt) /\ HasMatch(patt, candidate)) =>
        LET i == FirstMatch(patt, candidate)
            result == Get(patt.items[i], "1")
        IN  /\ (IsFunction(result) /\ Truthy(MarkFn(result))) =>
                 /\ outcome = MarkFn(result)
                 /\ calls = CondLog(patt, candidate, i)
            /\ ~IsFunction(result) =>
                 /\ outcome = result
                 /\ calls = CondLog(patt, candidate, i)

\* A branch with result Fn(tagFn) decided, after a predicate was tested.
C9_Witness ==
    /\ pc = "matched"
    /\ IsOrdered(patt)
    /\ HasMatch(patt, candidate)
    /\ FirstMatch(patt, candidate) = 2
    /\ Get(patt.items[2], "1") = wrappedTag
    /\ outcome = tagFn
    /\ Len(calls) = 1

(***************************************************************************)
(* Vocabulary of the keyed properties: the levels a keyed dispatch walks.  *)
(***************************************************************************)
\* The arm name of a container's variant.
VariantOf(c) ==
    IF c.k = "Option"
    THEN (IF c.T THEN "Some" ELSE "None")
    ELSE (IF c.T THEN "Ok" ELSE "Err")

IsKeyed(pattern) == pattern.k = "object"

\* The keyed levels visited for v, outermost first, and how the walk ends:
\* "miss" (a container whose variant has no arm, or a None whose arm is no
\* function), "plain" (a function arm), "ordered" (an ordered pattern as
\* arm) or "invalid" (v is no container).
RECURSIVE Walk(_, _)
Walk(pattern, v) ==
    IF ~HasT(v)
    THEN [levels |-> <<pattern>>, end |-> "invalid", arm |-> Undef, at |-> v]
    ELSE IF \/ ~HasKey(pattern, VariantOf(v))
            \/ VariantOf(v) = "None" /\ ~IsFunction(Get(pattern, "None"))
    THEN [levels |-> <<pattern>>, end |-> "miss", arm |-> Undef, at |-> v]
    ELSE LET arm == Get(pattern, VariantOf(v)) IN
         IF IsFunction(arm)
         THEN [levels |-> <<pattern>>, end |-> "plain", arm |-> arm, at |-> v]
         ELSE IF IsArray(arm)
         THEN [levels |-> <<pattern>>, end |-> "ordered", arm |-> arm, at |-> v]
         ELSE LET w == Walk(arm, v.Val) IN
              [levels |-> <<pattern>> \o w.levels, end |-> w.end,
               arm |-> w.arm, at |-> w.at]

\* The levels among the visited ones that declare a `_` producer.
Declaring(levels) == {j \in 1..Len(levels) : IsFunction(Get(levels[j], "_"))}

Deepest(S) == CHOOSE j \in S : \A jj \in S : jj <= j

\* The ordered pattern has no branch matching v and no bare function.
NoBranchNoDefault(pattern, v) ==
    /\ \A i \in 1..Len(pattern.items) : IsArray(pattern.items[i])
    /\ ~HasMatch(pattern, v)

(***************************************************************************)
(* C2: in a three-level nested keyed pattern where only the outermost      *)
(* level declares `_`, a candidate whose innermost container has no arm at *)
(* the innermost level gets the value of the outermost `_` producer, which *)
(* is the only function invoked.                                           *)
(***************************************************************************)
C2_OuterDefaultBubbles ==
    (pc = "matched" /\ IsKeyed(patt)) =>
        LET w == Walk(patt, candidate) IN
        (w.end = "miss" /\ Len(w.levels) = 3 /\ Declaring(w.levels) = {1}) =>
            /\ outcome = CallFn(Get(patt, "_"), <<>>)
            /\ outcome # Exhausted
            /\ calls = <<Event(Get(patt, "_"), <<>>)>>

\* Ok(Some(Err(1))) against {Ok: {Some: {Ok: f}}, _: d}.
C2_Witness ==
    /\ pc = "matched"
    /\ candidate = OkAt(1, SomeAt(1, ErrAt(1, Num(1))))
    /\ IsKeyed(patt)
    /\ Walk(patt, candidate).end = "miss"
    /\ Len(Walk(patt, candidate).levels) = 3
    /\ Declaring(Walk(patt, candidate).levels) = {1}
    /\ outcome = CallFn(Get(patt, "_"), <<>>)

(***************************************************************************)
(* C3: when a keyed level at any depth has no arm for the observed         *)
(* variant, the `_` invoked is that of the nearest level declaring one     *)
(* (the level itself, else the enclosing levels outward), and no other     *)
(* function is invoked.                                                    *)
(***************************************************************************)
C3_ClosestDefaultWins ==
    (pc = "matched" /\ IsKeyed(patt)) =>
        LET w == Walk(patt, candidate) IN
        (w.end = "miss" /\ Declaring(w.levels) # {}) =>
            LET nearest == Get(w.levels[Deepest(Declaring(w.levels))], "_") IN
            /\ outcome = CallFn(nearest, <<>>)
            /\ calls = <<Event(nearest, <<>>)>>

\* A miss two levels down, where both the inner and the outer level declare
\* `_`: the inner one answered.
C3_Witness ==
    /\ pc = "matched"
    /\ IsKeyed(patt)
    /\ Walk(patt, candidate).end = "miss"
    /\ Len(Walk(patt, candidate).levels) = 2
    /\ Declaring(Walk(patt, candidate).levels) = {1, 2}
    /\ outcome = CallFn(Get(Walk(patt, candidate).levels[2], "_"), <<>>)
    /\ outcome # CallFn(Get(patt, "_"), <<>>)

(***************************************************************************)
(* C4: match raises Exhausted whenever no branch of an ordered pattern or  *)
(* no arm of a keyed pattern matches and no default is available at that   *)
(* level or any enclosing one; match(v, []) and match(Some(x), {}) do.     *)
(***************************************************************************)
C4_ExhaustedWithoutDefault ==
    pc = "matched" =>
        /\ (IsArray(patt) /\ NoBranchNoDefault(patt, candidate)) =>
               outcome = Exhausted
        /\ IsKeyed(patt) =>
               LET w == Walk(patt, candidate) IN
               /\ (w.end = "miss" /\ Declaring(w.levels) = {}) =>
                      outcome = Exhausted
               /\ (/\ w.end = "ordered"
                   /\ NoBranchNoDefault(w.arm, w.at.Val)
                   /\ Declaring(w.levels) = {}) =>
                      outcome = Exhausted

\* match(Some(1), {}) has raised Exhausted.
C4_Witness ==
    /\ pc = "matched"
    /\ patt = Obj(9, <<>>)
    /\ candidate = SomeAt(1, Num(1))
    /\ outcome = Exhausted

(***************************************************************************)
(* C5: a keyed pattern applied to a candidate that is neither an Option    *)
(* nor a Result raises InvalidPattern, also when the pattern declares `_`; *)
(* nothing is invoked.                                                     *)
(***************************************************************************)
C5_KeyedOnNonContainer ==
    (pc = "matched" /\ IsKeyed(patt) /\ ~OptionIs(candidate) /\ ~ResultIs(candidate)) =>
        /\ outcome = InvalidPattern
        /\ calls = <<>>

\* match("never", {_: d}) has raised InvalidPattern.
C5_Witness ==
    /\ pc = "matched"
    /\ candidate = Str("never")
    /\ patt = Obj(9, <<Prop("_", levelDefault(MaxLevels))>>)
    /\ outcome = InvalidPattern
    /\ calls = <<>>

(***************************************************************************)
(* Vocabulary of the condition properties.                                 *)
(***************************************************************************)
\* The functions of a condition that sit outside every container condition.
RECURSIVE FunctionsOutside(_)
FunctionsOutside(x) ==
    CASE x.k = "function" -> {x}
      [] x.k = "array" -> UNION {FunctionsOutside(x.items[i]) : i \in 1..Len(x.items)}
      [] x.k = "object" -> UNION {FunctionsOutside(x.props[i].val) : i \in 1..Len(x.props)}
      [] OTHER -> {}

IsWrapper(x) == IsFunction(x) /\ "mark" \in DOMAIN x
IsPlainFn(x) == IsFunction(x) /\ ~IsWrapper(x) /\ x # Default

\* The condition under test stands alone in the ordered pattern.
AloneInPattern ==
    patt = Arr(9, <<BranchOf(condition, Str("hit")), missFn>>)

(***************************************************************************)
(* C6: a pattern that is neither an array nor a non-null object (null, a   *)
(* primitive, a function) makes match raise InvalidPattern for every       *)
(* candidate, and nothing is invoked.                                      *)
(***************************************************************************)
C6_InvalidPatternShape ==
    (pc = "matched" /\ patt.k \notin {"array", "object", "Option", "Result"}) =>
        /\ outcome = InvalidPattern
        /\ calls = <<>>

\* match(Some(1), null) has raised InvalidPattern.
C6_Witness ==
    /\ pc = "matched"
    /\ patt = Null
    /\ candidate = SomeAt(1, Num(1))
    /\ outcome = InvalidPattern

(***************************************************************************)
(* C7: a plain function inside the wrapped condition of a container        *)
(* condition is never invoked: every function matching invokes sits        *)
(* outside all container conditions, and a container condition wrapping a  *)
(* plain function matches only a candidate wrapping that same function.    *)
(***************************************************************************)
C7_NoPredicateInsideContainer ==
    /\ pc = "evaluated" =>
         /\ \A p \in 1..Len(calls) : calls[p].fn \in FunctionsOutside(condition)
         /\ (HasT(condition) /\ IsPlainFn(condition.Val) /\ HasT(candidate)
               /\ candidate.Val # condition.Val) => outcome = Bool(FALSE)
    /\ (pc = "matched" /\ AloneInPattern) =>
         /\ \A p \in 1..Len(calls) :
                calls[p].fn \in FunctionsOutside(condition) \cup {missFn}
         /\ (HasT(condition) /\ IsPlainFn(condition.Val) /\ HasT(candidate)
               /\ candidate.Val # condition.Val) => outcome = CallFn(missFn, <<>>)

\* Some(returnTrue) tested against Some(1): no match, nothing invoked.
C7_Witness ==
    /\ pc = "evaluated"
    /\ evalFlag
    /\ condition = SomeAt(2, returnTrue)
    /\ candidate = SomeAt(1, Num(1))
    /\ outcome = Bool(FALSE)
    /\ calls = <<>>

(***************************************************************************)
(* C8 as stated: a branch whose condition is Fn(f), or a container around  *)
(* Fn(f), decides iff the candidate is f, or a container of that kind and  *)
(* variant around f; no function of the condition or candidate is invoked. *)
(***************************************************************************)
C8_FnMatchesIffIdentical ==
    (pc = "matched" /\ AloneInPattern) =>
        /\ IsWrapper(condition) =>
             /\ (outcome = Str("hit")) = (candidate = MarkFn(condition))
             /\ \A p \in 1..Len(calls) : calls[p].fn = missFn
        /\ (HasT(condition) /\ IsWrapper(condition.Val)) =>
             /\ (outcome = Str("hit")) = (/\ isLike(condition, candidate)
                                          /\ candidate.Val = MarkFn(condition.Val))
             /\ \A p \in 1..Len(calls) : calls[p].fn = missFn

(***************************************************************************)
(* C8 amended: Fn(f) matches a candidate iff the candidate is f or is the  *)
(* wrapper Fn(f) itself, at the top level and inside a container           *)
(* condition (there for the wrapped values), and no function of the        *)
(* condition or candidate is invoked.                                      *)
(***************************************************************************)
C8_FnMatchesFnOrItself ==
    LET Same(c, v) == v = MarkFn(c) \/ v = c IN
    /\ pc = "evaluated" =>
         /\ IsWrapper(condition) =>
              outcome = Bool(Same(condition, candidate)) /\ calls = <<>>
         /\ (HasT(condition) /\ IsWrapper(condition.Val)) =>
              /\ outcome = Bool(/\ isLike(condition, candidate)
                                /\ Same(condition.Val, candidate.Val))
              /\ calls = <<>>
    /\ (pc = "matched" /\ AloneInPattern) =>
         /\ IsWrapper(condition) =>
              /\ (outcome = Str("hit")) = Same(condition, candidate)
              /\ \A p \in 1..Len(calls) : calls[p].fn = missFn
         /\ (HasT(condition) /\ IsWrapper(condition.Val)) =>
              /\ (outcome = Str("hit")) = (/\ isLike(condition, candidate)
                                           /\ Same(condition.Val, candidate.Val))
              /\ \A p \in 1..Len(calls) : calls[p].fn = missFn

\* Some(Fn(returnTrue)) tested against Some(returnTrue): a match, nothing
\* invoked.
C8_Witness ==
    /\ pc = "evaluated"
    /\ condition = SomeAt(2, wrappedTrue)
    /\ candidate = SomeAt(1, returnTrue)
    /\ outcome = Bool(TRUE)
    /\ calls = <<>>

(***************************************************************************)
(* C10: the wildcard matches every candidate at the top level, as the      *)
(* condition of a key the candidate has, and inside a container condition  *)
(* of the candidate's kind and variant; nothing is invoked.                *)
(***************************************************************************)
C10_WildcardUniversal ==
    pc = "evaluated" =>
        /\ condition = Default => outcome = Bool(TRUE) /\ calls = <<>>
        /\ (HasT(condition) /\ condition.Val = Default /\ isLike(condition, candidate)) =>
             outcome = Bool(TRUE) /\ calls = <<>>
        /\ (/\ condition.k \in {"object", "array"}
            /\ candidate.k = condition.k
            /\ \A i \in 1..Len(Keys(condition)) :
                 /\ Get(condition, Keys(condition)[i]) = Default
                 /\ HasKey(candidate, Keys(condition)[i])) =>
             outcome = Bool(TRUE) /\ calls = <<>>

\* Ok(_) tested against Ok(undefined) without predicate evaluation.
C10_Witness ==
    /\ pc = "evaluated"
    /\ ~evalFlag
    /\ condition = OkAt(2, Default)
    /\ candidate = OkAt(1, Undef)
    /\ outcome = Bool(TRUE)


(***************************************************************************)
(* C11.  An array condition never matches a non-array object candidate and *)
(* a non-array object condition never matches an array candidate, whatever *)
(* keys and values the two have in common: matches answers false, and      *)
(* match falls through to the next entry of the pattern.                   *)
(***************************************************************************)
IsPlainObject(x) == x.k = "object"

ShapesDiffer ==
    \/ IsArray(condition) /\ isObjectLike(candidate) /\ ~IsArray(candidate)
    \/ IsPlainObject(condition) /\ IsArray(candidate)

C11_ShapeParity ==
    ShapesDiffer =>
        /\ pc = "evaluated" => outcome = Bool(FALSE) /\ calls = <<>>
        /\ pc = "matched" =>
              outcome = CallFn(missFn, <<>>) /\ calls = <<Event(missFn, <<>>)>>

\* [1] against {"0": 1}, or {"0": 1} against [1]: the common key agrees.
C11_Witness ==
    /\ pc = "matched"
    /\ outcome = CallFn(missFn, <<>>)
    /\ \/ condition = Arr(2, <<Num(1)>>)
          /\ candidate = Obj(1, <<Prop("0", Num(1))>>)
       \/ condition = Obj(2, <<Prop("0", Num(1))>>)
          /\ candidate = Arr(1, <<Num(1)>>)


(***************************************************************************)
(* C12.  An object or array condition matches a candidate of the same      *)
(* shape iff every own key of the condition is present in the candidate    *)
(* (`key in candidate`: owned or inherited) and the condition at that key  *)
(* matches the candidate's value there.  A key the candidate lacks fails   *)
(* the match even under the wildcard, and keys only the candidate has play *)
(* no part.                                                                *)
(***************************************************************************)
SameShape ==
    \/ IsArray(condition) /\ IsArray(candidate)
    \/ IsPlainObject(condition) /\ isObjectLike(candidate) /\ ~IsArray(candidate)

OwnKeys(x) == {Keys(x)[i] : i \in 1..Len(Keys(x))}

PresentIn(x, key) == key \in OwnKeys(x) \/ key = "toString"

EveryKeyMatches(evaluate) ==
    \A key \in OwnKeys(condition) :
        /\ PresentIn(candidate, key)
        /\ matches(Get(condition, key), Get(candidate, key), evaluate).b

C12_PartialMatch ==
    SameShape =>
        /\ pc = "evaluated" => outcome = Bool(EveryKeyMatches(evalFlag))
        /\ pc = "matched" =>
              outcome = IF EveryKeyMatches(TRUE) THEN Str("hit") ELSE CallFn(missFn, <<>>)

\* {a: _} against {"0": 1}: the wildcard's key is missing.
C12_Witness ==
    /\ pc = "matched"
    /\ condition = Obj(2, <<Prop("a", Default)>>)
    /\ candidate = Obj(1, <<Prop("0", Num(1))>>)
    /\ outcome = CallFn(missFn, <<>>)


(***************************************************************************)
(* C13.  A keyed level selects the arm named after the kind and variant of *)
(* the container it is given: Some or None for an Option, Ok or Err for a  *)
(* Result, never an arm of the other kind.  When that arm is a plain       *)
(* function it is the only function invoked, with the unwrapped value for  *)
(* Some, Ok and Err and with no argument for None, and what it returns is  *)
(* the result of match.                                                    *)
(***************************************************************************)
ArmArgs(c) == IF VariantOf(c) = "None" THEN <<>> ELSE <<c.Val>>

C13_ArmByKindAndVariant ==
    (pc = "matched" /\ IsKeyed(patt)) =>
        LET w == Walk(patt, candidate) IN
        (w.end = "plain" /\ IsPlainFn(w.arm)) =>
            /\ outcome = CallFn(w.arm, ArmArgs(w.at))
            /\ calls = <<Event(w.arm, ArmArgs(w.at))>>

\* None against a pattern with all four arms: the None arm ran, without
\* arguments.
C13_Witness ==
    /\ pc = "matched"
    /\ patt \in UnionPatterns
    /\ candidate = None
    /\ calls = <<Event(noneFn, <<>>)>>
    /\ outcome = Undef


(***************************************************************************)
(* C14.  When the arm of a keyed level is an ordered pattern and none of   *)
(* its branches matches the unwrapped value: an ordered pattern closed by  *)
(* a bare function of its own yields that function's value; otherwise the  *)
(* `_` of the level holding the arm is invoked, and when that level has    *)
(* none, the default it inherited (the nearest enclosing `_`, else the     *)
(* exhausted default).  No other function is invoked.                      *)
(***************************************************************************)
LastOf(pattern) == pattern.items[Len(pattern.items)]

EndsWithOwnDefault(pattern) ==
    Len(pattern.items) > 0 /\ IsFunction(LastOf(pattern))

\* The default in force at the innermost of the visited levels.
NearestDefault(levels) ==
    IF Declaring(levels) = {}
    THEN Default
    ELSE Get(levels[Deepest(Declaring(levels))], "_")

C14_CombinedFallback ==
    (pc = "matched" /\ IsKeyed(patt)) =>
        LET w == Walk(patt, candidate) IN
        (w.end = "ordered" /\ ~HasMatch(w.arm, w.at.Val)) =>
            LET producer == IF EndsWithOwnDefault(w.arm)
                            THEN LastOf(w.arm)
                            ELSE NearestDefault(w.levels)
            IN  /\ outcome = CallFn(producer, <<>>)
                /\ calls = <<Event(producer, <<>>)>>

\* An ordered arm without a default of its own, two levels down, where only
\* the outer level declares `_`: the outer producer answered.
C14_Witness ==
    /\ pc = "matched"
    /\ IsKeyed(patt)
    /\ Walk(patt, candidate).end = "ordered"
    /\ Len(Walk(patt, candidate).levels) = 2
    /\ Declaring(Walk(patt, candidate).levels) = {1}
    /\ ~EndsWithOwnDefault(Walk(patt, candidate).arm)
    /\ ~HasMatch(Walk(patt, candidate).arm, Walk(patt, candidate).at.Val)
    /\ outcome = CallFn(Get(patt, "_"), <<>>)
    /\ outcome # Exhausted


(***************************************************************************)
(* C15.  Whenever the function made by match.compile(p) has been called    *)
(* with a candidate v, whatever it was called with before, it returned or  *)
(* threw what match(v, p) returns or throws, having invoked the same       *)
(* functions with the same arguments.                                      *)
(***************************************************************************)
C15_CompileEquivalent ==
    pc = "applied" =>
        /\ outcome = match(candidate, patt).out
        /\ calls = match(candidate, patt).log

\* The compiled four-arm pattern, on its second call, answered Some(1) as
\* match does.
C15_Witness ==
    /\ pc = "applied"
    /\ uses = 2
    /\ patt \in UnionPatterns
    /\ candidate = SomeAt(1, Num(1))
    /\ outcome = Num(1)
    /\ calls = <<Event(someFn, <<Num(1)>>)>>


(***************************************************************************)
(* C16.  `_` and Default are one and the same value.  Called without       *)
(* arguments it raises the exhausted error: when a client calls it         *)
(* directly, and when match reaches it as the trailing entry of an ordered *)
(* pattern none of whose branches matched.                                 *)
(***************************************************************************)
C16_SentinelRaisesExhausted ==
    /\ Underscore = Default
    /\ pc = "calledDefault" =>
          outcome = Exhausted /\ calls = <<Event(Default, <<>>)>>
    /\ (/\ pc = "matched"
        /\ IsOrdered(patt)
        /\ EndsWithOwnDefault(patt)
        /\ LastOf(patt) = Underscore
        /\ ~HasMatch(patt, candidate)) =>
          /\ outcome = Exhausted
          /\ calls # <<>>
          /\ calls[Len(calls)] = Event(Underscore, <<>>)

\* A two-entry ordered pattern closed by `_`, whose branch did not match.
C16_Witness ==
    /\ pc = "matched"
    /\ Len(patt.items) = 2
    /\ IsOrdered(patt)
    /\ LastOf(patt) = Underscore
    /\ ~HasMatch(patt, candidate)
    /\ outcome = Exhausted
    /\ calls[Len(calls)] = Event(Underscore, <<>>)


(***************************************************************************)
(* C17.  Calling a wrapper made by Fn(f) as a function raises the wrapped- *)
(* function-called error; the call neither yields what f yields nor        *)
(* invokes f.                                                              *)
(***************************************************************************)
C17_WrapperCallRaises ==
    pc = "calledWrapper" =>
        /\ Len(calls) = 1
        /\ IsWrapper(calls[1].fn)
        /\ calls[1].fn # MarkFn(calls[1].fn)
        /\ outcome = WrappedFunctionCalled
        /\ outcome # CallFn(MarkFn(calls[1].fn), calls[1].args)

\* Fn(tagFn)() has raised the error.
C17_Witness ==
    /\ pc = "calledWrapper"
    /\ calls = <<Event(wrappedTag, <<>>)>>
    /\ MarkFn(wrappedTag) = tagFn
    /\ outcome = WrappedFunctionCalled


(***************************************************************************)
(* C18.  When no branch of an ordered pattern matches, the default         *)
(* function closing the pattern is called with the candidate, and what it  *)
(* returns for the candidate is the result.                                *)
(***************************************************************************)
DefaultDecides ==
    /\ pc = "matched"
    /\ IsOrdered(patt)
    /\ EndsWithOwnDefault(patt)
    /\ IsPlainFn(LastOf(patt))
    /\ ~HasMatch(patt, candidate)

\* What the function of an invocation finds as its first parameter.
FirstParameter(e) == IF Len(e.args) > 0 THEN e.args[1] ELSE Undef

C18_DefaultGetsCandidate ==
    DefaultDecides =>
        /\ calls # <<>>
        /\ calls[Len(calls)].fn = LastOf(patt)
        /\ FirstParameter(calls[Len(calls)]) = candidate
        /\ outcome = CallFn(LastOf(patt), <<candidate>>)

\* What the code does instead: the default is called without arguments.
C18_DefaultCalledBare ==
    DefaultDecides =>
        /\ calls # <<>>
        /\ calls[Len(calls)] = Event(LastOf(patt), <<>>)
        /\ outcome = CallFn(LastOf(patt), <<>>)

\* match(1, [[0, r], (x) => x]) has returned undefined.
C18_Observed ==
    /\ DefaultDecides
    /\ candidate = Num(1)
    /\ LastOf(patt) = echoDefault
    /\ outcome = Undef


(***************************************************************************)
(* C19.  In an ordered pattern a bare function entry ends the scan         *)
(* wherever it stands.  When no branch ahead of it matches, the original   *)
(* statement has it called with no arguments and its value returned, with  *)
(* nothing after it evaluated.                                             *)
(***************************************************************************)
HasBare(pattern) == \E i \in 1..Len(pattern.items) : IsFunction(pattern.items[i])

\* The index of the first bare function entry.
FirstBare(pattern) ==
    CHOOSE i \in 1..Len(pattern.items) :
        /\ IsFunction(pattern.items[i])
        /\ \A j \in 1..(i - 1) : ~IsFunction(pattern.items[j])

\* The scan of match has arrived at the first bare function entry.
ReachesBare ==
    /\ pc = "matched"
    /\ IsArray(patt)
    /\ HasBare(patt)
    /\ \A j \in 1..(FirstBare(patt) - 1) : ~BranchMatches(patt, j, candidate)

IsPattern(x) == IsArray(x) \/ x.k = "object"

\* The candidate is a container and the outermost level registers a nested
\* pattern for its variant.
NestedArmSelected ==
    /\ pc = "matched"
    /\ IsKeyed(patt)
    /\ HasT(candidate)
    /\ IsPattern(Get(patt, VariantOf(candidate)))

RoutedThroughArm ==
    LET r == matchDispatch(candidate.Val, Get(patt, VariantOf(candidate)),
                           OwnOrInherited(patt, Default))
    IN  outcome = r.out /\ calls = r.log

C20_NestedArmRouted == NestedArmSelected => RoutedThroughArm

(***************************************************************************)
(* C20, amended.  The nested pattern is routed against the unwrapped value *)
(* for Some, Ok and Err.  A None arm that is not a function is never       *)
(* routed: the level's `_` is invoked, else the exhausted default.         *)
(***************************************************************************)
C20_NestedArmRoutedUnlessNone ==
    NestedArmSelected =>
        IF VariantOf(candidate) = "None"
        THEN LET d == OwnOrInherited(patt, Default) IN
             outcome = CallFn(d, <<>>) /\ calls = <<Event(d, <<>>)>>
        ELSE RoutedThroughArm

\* Err(1) against {Err: [[1, "one"]]}: the ordered arm decided on the 1.
C20_Witness ==
    /\ NestedArmSelected
    /\ candidate = ErrAt(1, Num(1))
    /\ IsArray(Get(patt, "Err"))
    /\ outcome = Str("one")


(***************************************************************************)
(* C21.  When a branch of an ordered pattern decides and its result is a   *)
(* function that is no Fn wrapper, that function is invoked exactly once,  *)
(* after the conditions, with the candidate of that dispatch: the          *)
(* candidate of match, or what the container holds when the ordered        *)
(* pattern is the arm of a keyed level.  What it returns is the result of  *)
(* match, a promise still pending included.                                *)
(***************************************************************************)
\* How often the invocation e occurs in a log.
Occurrences(log, e) == Cardinality({p \in 1..Len(log) : log[p] = e})

\* The first branch of the ordered pattern matching v has an unwrapped
\* function for result, and no bare function stands ahead of it.
ResultFnDecides(pattern, v) ==
    /\ HasMatch(pattern, v)
    /\ \A j \in 1..FirstMatch(pattern, v) : ~IsFunction(pattern.items[j])
    /\ IsFunction(Get(pattern.items[FirstMatch(pattern, v)], "1"))
    /\ ~IsWrapper(Get(pattern.items[FirstMatch(pattern, v)], "1"))

\* The result function of the deciding branch ran once, last, on v.
RanResultOn(pattern, v) ==
    LET i == FirstMatch(pattern, v)
        result == Get(pattern.items[i], "1")
    IN  /\ outcome = CallFn(result, <<v>>)
        /\ calls = CondLog(pattern, v, i) \o <<Event(result, <<v>>)>>
        /\ Occurrences(calls, Event(result, <<v>>)) = 1
        /\ \A p \in 1..Len(calls) : calls[p].fn = result => p = Len(calls)

C21_ResultFnGetsCandidate ==
    pc = "matched" =>
        /\ (IsArray(patt) /\ ResultFnDecides(patt, candidate)) =>
               RanResultOn(patt, candidate)
        /\ IsKeyed(patt) =>
               LET w == Walk(patt, candidate) IN
               (w.end = "ordered" /\ ResultFnDecides(w.arm, w.at.Val)) =>
                   RanResultOn(w.arm, w.at.Val)

\* Err(1) against {Err: [[1, (x) => x]]}: the function got the 1, not the
\* container.
C21_Witness ==
    /\ pc = "matched"
    /\ patt \in ResultArmPatterns
    /\ candidate = ErrAt(1, Num(1))
    /\ outcome = Num(1)
    /\ calls = <<Event(identityFn, <<Num(1)>>)>>

\* match("x", [..., ["x", async () => ...]]) has returned the pending
\* promise.
C21_PendingReturned ==
    /\ pc = "matched"
    /\ IsArray(patt)
    /\ candidate = Str("x")
    /\ outcome = PendingPromise(10)


(***************************************************************************)
(* C22.  A predicate standing at a key of an object or array condition is  *)
(* invoked with the candidate's value at that key whenever predicates are  *)
(* evaluated for the condition itself, and the key matches iff the         *)
(* predicate returns a truthy value; the keys are tested in order, up to   *)
(* the first one that fails.  Under a container condition no predicate of  *)
(* the object or array it holds is invoked.                                *)
(***************************************************************************)
\* The flag the condition itself is evaluated with.
FlagInForce == IF pc = "matched" THEN TRUE ELSE evalFlag

\* The entry of the condition at key is a predicate that gets evaluated.
PredicateAt(key) ==
    /\ PresentIn(candidate, key)
    /\ IsPlainFn(Get(condition, key))
    /\ Get(condition, key) # Get(candidate, key)
    /\ FlagInForce

\* The entry at key accepts the candidate's value there: the wildcard, the
\* same value, or a predicate returning truthy.
KeyAccepts(key) ==
    /\ PresentIn(candidate, key)
    /\ \/ Get(condition, key) = Default
       \/ Get(condition, key) = Get(candidate, key)
       \/ /\ PredicateAt(key)
          /\ Truthy(CallFn(Get(condition, key), <<Get(candidate, key)>>))

\* The predicate invocations over the first i keys of the condition.
RECURSIVE KeyCalls(_)
KeyCalls(i) ==
    IF i = 0
    THEN <<>>
    ELSE LET key == Keys(condition)[i] IN
         IF PredicateAt(key) /\ \A j \in 1..(i - 1) : KeyAccepts(Keys(condition)[j])
         THEN KeyCalls(i - 1) \o <<Event(Get(condition, key), <<Get(candidate, key)>>)>>
         ELSE KeyCalls(i - 1)

\* What the pattern's second entry adds to the log of match.
MissCalls(hit) == IF hit THEN <<>> ELSE <<Event(missFn, <<>>)>>

C22_PredicatesInsideShapes ==
    /\ (pc \in {"evaluated", "matched"} /\ SameShape) =>
          LET hit == \A key \in OwnKeys(condition) : KeyAccepts(key) IN
          /\ pc = "evaluated" =>
                /\ outcome = Bool(hit)
                /\ calls = KeyCalls(Len(Keys(condition)))
          /\ pc = "matched" =>
                /\ outcome = (IF hit THEN Str("hit") ELSE CallFn(missFn, <<>>))
                /\ calls = KeyCalls(Len(Keys(condition))) \o MissCalls(hit)
    /\ (pc \in {"evaluated", "matched"} /\ HasT(condition)) =>
          \A p \in 1..Len(calls) : calls[p].fn # identityFn

\* {a: (x) => x} against {a: 1}: the predicate was handed the 1 and
\* accepted it.
C22_Witness ==
    /\ pc = "matched"
    /\ condition = Obj(2, <<Prop("a", identityFn)>>)
    /\ candidate = Obj(1, <<Prop("a", Num(1))>>)
    /\ outcome = Str("hit")
    /\ calls = <<Event(identityFn, <<Num(1)>>)>>


(***************************************************************************)
(* C23.  A container condition matches a candidate exactly when the        *)
(* candidate is a container of the same kind (Option or Result) and the    *)
(* same variant, and the condition it holds matches what the candidate     *)
(* holds, predicates not being evaluated.  In particular it matches no     *)
(* container of the other kind, no other variant and no candidate that is  *)
(* not a container.                                                        *)
(***************************************************************************)
SameKindAndVariant(c, v) == HasT(v) /\ v.k = c.k /\ v.T = c.T

C23_ContainerCondition ==
    (HasT(condition) /\ pc \in {"evaluated", "matched"} /\ IsArray(patt)) =>
        LET hit == /\ SameKindAndVariant(condition, candidate)
                   /\ matches(condition.Val, candidate.Val, FALSE).b
        IN  /\ pc = "evaluated" => outcome = Bool(hit)
            /\ pc = "matched" =>
                  outcome = (IF hit THEN Str("hit") ELSE CallFn(missFn, <<>>))

\* Some(1) against Ok(1): equal payloads, the other kind.
C23_Witness ==
    /\ pc = "matched"
    /\ condition = SomeAt(2, Num(1))
    /\ candidate = OkAt(1, Num(1))
    /\ IsArray(patt)
    /\ outcome = CallFn(missFn, <<>>)


(***************************************************************************)
(* C24.  No dispatch writes to what it is given.  Every step leaves the    *)
(* pattern and the condition as they were; a call of match or matches      *)
(* leaves the candidate as it was, and after a call of the compiled        *)
(* function the candidate is the value the client handed over, and the     *)
(* pattern the function keeps is still the pattern it was compiled from.   *)
(* This holds whether the call returned or raised.                         *)
(***************************************************************************)
C24_DispatchLeavesInputs ==
    [][/\ patt' = patt
       /\ condition' = condition
       /\ pc' \in {"matched", "evaluated"} => candidate' = candidate
       /\ pc' = "applied" =>
             /\ candidate' \in Reuse(candidate)
             /\ matcher' = matcher
             /\ matcher'.pattern = patt]_vars

\* After two calls of the compiled function, the second of which raised,
\* the two-entry pattern is what the function still holds.
C24_Witness ==
    /\ pc = "applied"
    /\ uses = 2
    /\ outcome = Exhausted
    /\ IsArray(patt)
    /\ Len(patt.items) = 2
    /\ matcher.pattern = patt


(***************************************************************************)
(* C25.  The sentinel (under both of its names), match, match.compile, Fn  *)
(* and every wrapper a call of Fn has returned are frozen from module      *)
(* initialization on, through any calls of match, compile and Fn: none of  *)
(* them has ever taken a write, and `_` is still Default.                  *)
(***************************************************************************)
\* The wrappers made so far.
WrappersMade ==
    {wrappedTrue, wrappedTag} \cup (IF pc = "wrapped" THEN {outcome} ELSE {})

C25_EngineObjectsFrozen ==
    LET engine == {Default, Underscore, matchFunction, compileFunction, FnFunction}
                      \cup WrappersMade
    IN  /\ engine \subseteq frozen
        /\ engine \cap tampered = {}
        /\ \A x \in tampered : ~IsWrapper(x)
        /\ Underscore = Default

\* A write was tried after a call of Fn and refused.
C25_Witness ==
    /\ pc = "assigned"
    /\ Fn(22, tagFn) \in frozen
    /\ outcome = TypeError
    /\ tampered = {}

(***************************************************************************)
(* C26.  A dispatch and a test of one condition end within the call that   *)
(* started them, with a value returned or an error raised; and the calls   *)
(* of matches made for one test nest no deeper than the condition does,    *)
(* however deep the candidate is.                                          *)
(***************************************************************************)
RECURSIVE NestingDepth(_), DeepestFrom(_, _)
\* How deep the value x nests: 1 for a primitive or a function, one more
\* than its content for a container, an object or an array.
NestingDepth(x) ==
    IF HasT(x)
    THEN 1 + NestingDepth(x.Val)
    ELSE IF isObjectLike(x)
    THEN 1 + DeepestFrom(x, 1)
    ELSE 1

\* The deepest of the values x holds under its own keys from the i-th on.
DeepestFrom(x, i) ==
    IF i > Len(Keys(x))
    THEN 0
    ELSE Max(NestingDepth(Get(x, Keys(x)[i])), DeepestFrom(x, i + 1))

\* The operation has come back with a value or an error.
Settled == outcome # Pending /\ "k" \in DOMAIN outcome

C26_TerminatesWithinCondition ==
    /\ pc \in {"matched", "evaluated", "applied"} => Settled
    /\ pc = "evaluated" =>
          /\ outcome.k = "boolean"
          /\ depth >= 1
          /\ depth <= NestingDepth(condition)

\* A test that went all the way down its condition, against a candidate that
\* nests deeper than the condition.
C26_Witness ==
    /\ pc = "evaluated"
    /\ depth = 2
    /\ NestingDepth(condition) = 2
    /\ NestingDepth(candidate) >= 3

(***************************************************************************)
(* C27.  When a keyed arm holds a nested keyed pattern and the value the   *)
(* container holds is no Option or Result, match raises InvalidPattern and *)
(* has invoked nothing, whichever of the levels declare `_`.               *)
(***************************************************************************)
\* The walk went through a keyed arm into a nested keyed level and met a
\* value that is no container there.
InvalidInNestedLevel ==
    /\ pc = "matched"
    /\ IsKeyed(patt)
    /\ Walk(patt, candidate).end = "invalid"
    /\ Len(Walk(patt, candidate).levels) >= 2

C27_NestedInvalidNotRecovered ==
    InvalidInNestedLevel =>
        /\ outcome = InvalidPattern
        /\ calls = <<>>

\* Ok(Some(1)) against {Ok: {Some: {...}, _: d2}, _: d3}: the nested level
\* and the enclosing ones declare `_`.
C27_Witness ==
    /\ InvalidInNestedLevel
    /\ candidate = OkAt(1, SomeAt(1, Num(1)))
    /\ Declaring(Walk(patt, candidate).levels) = {1, 2, 3}
    /\ outcome = InvalidPattern

(***************************************************************************)
(* C28.  A test of one condition never raises, whatever the candidate:     *)
(* null, undefined and primitives included, against object, array and      *)
(* container conditions.  Where the candidate is of another kind or shape  *)
(* than the condition the answer is false and nothing was invoked: no      *)
(* property of the candidate is read, which for null and undefined would   *)
(* raise a TypeError.                                                      *)
(***************************************************************************)
\* The candidate is of another kind or shape than the object-like condition.
KindOrShapeMismatch ==
    /\ isObjectLike(condition)
    /\ IF HasT(condition)
       THEN condition # candidate /\ ~isLike(condition, candidate)
       ELSE ~isObjectLike(candidate) \/ IsArray(condition) # IsArray(candidate)

C28_EvaluatorNeverRaises ==
    pc = "evaluated" =>
        /\ outcome \in {Bool(TRUE), Bool(FALSE)}
        /\ KindOrShapeMismatch => outcome = Bool(FALSE) /\ calls = <<>>

\* null tested against an object condition that has a key.
C28_Witness ==
    /\ pc = "evaluated"
    /\ candidate = Null
    /\ condition.k = "object"
    /\ Len(Keys(condition)) >= 1
    /\ outcome = Bool(FALSE)

(***************************************************************************)
(* C29.  A wrapper made by Fn that stands as the arm of a keyed pattern    *)
(* (Some, None, Ok, Err) or as its `_` is invoked like any function when   *)
(* it is selected, and the dispatch raises WrappedFunctionCalled.          *)
(***************************************************************************)
\* The wrapper the keyed dispatch of the candidate selects, if it selects
\* one: the arm of the candidate's variant, or the nearest `_` when the
\* variant has no arm.
SelectedWrapper ==
    LET w == Walk(patt, candidate) IN
    IF w.end = "plain" /\ IsWrapper(w.arm)
    THEN {w.arm}
    ELSE IF w.end = "miss" /\ Declaring(w.levels) # {}
    THEN {f \in {Get(w.levels[Deepest(Declaring(w.levels))], "_")} : IsWrapper(f)}
    ELSE {}

C29_WrappedArmInvoked ==
    (pc = "matched" /\ IsKeyed(patt)) =>
        \A f \in SelectedWrapper :
            /\ outcome = WrappedFunctionCalled
            /\ Len(calls) = 1
            /\ calls[1].fn = f

\* A candidate whose variant has no arm, against a level whose `_` is a
\* wrapper.
C29_Witness ==
    /\ pc = "matched"
    /\ IsKeyed(patt)
    /\ SelectedWrapper # {}
    /\ Walk(patt, candidate).end = "miss"
    /\ outcome = WrappedFunctionCalled

(***************************************************************************)
(* C30.  A condition that is a plain function (no wrapper) and the very    *)
(* same function as the candidate matches by identity and is not invoked:  *)
(* as the condition of a branch, as a condition tested alone, and inside a *)
(* container condition of the candidate's kind and variant.                *)
(***************************************************************************)
\* The condition is a container of the candidate's kind and variant, another
\* object than the candidate, around the very function the candidate holds.
SameFunctionInside ==
    /\ HasT(condition)
    /\ condition # candidate
    /\ isLike(condition, candidate)
    /\ IsPlainFn(condition.Val)
    /\ condition.Val = candidate.Val

====
